---- MODULE Spec2Model ----
(***************************************************************************)
(* Model of the Azuqua Node.js client (src/azuqua.js): request signing,    *)
(* the flo name -> alias cache (floMap) and invoke with refresh-on-miss.   *)
(* The HTTP transport (self.client.request) is the environment: a request  *)
(* handed to it is answered later, in any order, with any response.        *)
(***************************************************************************)
EXTENDS Integers, Sequences, FiniteSets, TLC

\* ---------------------------------------------------------------- bounds
MaxCalls == 2      \* number of flos/invoke calls made on the client
MaxList  == 2      \* longest list-workflows response
MaxTime  == 1      \* last reading of the clock that new Date() can return

Calls == 1 .. MaxCalls
Times == 0 .. MaxTime

\* ------------------------------------------------------- JavaScript values
Undefined  == "<undefined>"          \* undefined / null / omitted argument
ObjectCtor == "<function Object>"    \* Object.prototype.constructor

Truthy(v) == v # Undefined /\ v # ""

\* typed values that travel as params / body
Str(s)    == [type |-> "string", str |-> s]
Obj(p)    == [type |-> "object", props |-> p]   \* p: sequence of <<key, value>>
Arr(l)    == [type |-> "array", items |-> l]    \* l: sequence of flo entries
NoValue   == [type |-> "undefined"]

\* members every plain object ({}) inherits from Object.prototype
ProtoKeys == {"constructor"}

\* ------------------------------------------------------------ input sets
FloNames   == {"billing", "report", "constructor"}
\* the entries a list-workflows response is made of; "billing" is both the
\* name of one flo and the alias of another, and one flo has the name of a
\* member of Object.prototype
FloEntries == { [name |-> "billing",     alias |-> "az1"],
                [name |-> "report",      alias |-> "billing"],
                [name |-> "constructor", alias |-> "az3"] }

SeqsUpTo(S, n) == UNION { [1 .. k -> S] : k \in 0 .. n }

FloLists == SeqsUpTo(FloEntries, MaxList)

\* what a caller passes as the flo argument of invoke
InvokeArgs == FloNames \cup {"az1"}

\* what a caller passes as the data argument of invoke
Payloads == { NoValue, Obj(<<>>), Obj(<< <<"amt", "5">> >>) }

Accounts == [accessKey : {Undefined, "k"}, accessSecret : {"", "s"}]

\* ------------------------------------------------------------------ routes
routes == [invoke |-> [path |-> "/flo/:id/invoke", method |-> "POST"],
           flos   |-> [path |-> "/account/flos",   method |-> "GET"]]

\* String.prototype.replace(":id", alias) on the invoke path.  A function as
\* the replacement is called with the match; Object(":id") is ":id" again.
replaceId(alias) ==
  IF alias = ObjectCtor THEN "/flo/" \o ":id" \o "/invoke"
  ELSE "/flo/" \o alias \o "/invoke"

\* -------------------------------------------------------------- signData
toLowerCase(verb) ==
  CASE verb = "GET" -> "get" [] verb = "POST" -> "post" [] OTHER -> verb

RECURSIVE stringifyProps(_)
stringifyProps(props) ==
  IF props = <<>> THEN ""
  ELSE "\"" \o Head(props)[1] \o "\":" \o Head(props)[2]
       \o (IF Tail(props) = <<>> THEN "" ELSE ",")
       \o stringifyProps(Tail(props))

\* JSON.stringify of a typed value
JSONstringify(v) ==
  CASE v.type = "object" -> "{" \o stringifyProps(v.props) \o "}"
    [] v.type = "string" -> "\"" \o v.str \o "\""
    [] OTHER             -> Undefined

\* crypto.createHmac("sha256", key).update(msg).digest("hex"), idealised:
\* the digest determines, and is determined by, the key and the message
Hmac(key, msg) == [alg |-> "sha256", key |-> key, msg |-> msg]

\* a signer that leaves the timestamp out of the message
signDataNoTimestamp(accessSecret, data, verb, path, timestamp) ==
  LET d == CASE data.type = "undefined" -> ""
             [] data.type = "string" /\ data.str = "" -> ""
             [] data.type = "object" -> JSONstringify(data)
             [] OTHER -> data.str
      meta == toLowerCase(verb) \o ":" \o path \o ":"
  IN  Hmac(accessSecret, meta \o d)

signData(accessSecret, data, verb, path, timestamp) ==
  LET d == CASE data.type = "undefined" -> ""
             [] data.type = "string" /\ data.str = "" -> ""
             [] data.type = "object" -> JSONstringify(data)
             [] OTHER -> data.str
      meta == toLowerCase(verb) \o ":" \o path \o ":" \o timestamp
  IN  Hmac(accessSecret, meta \o d)

\* ---------------------------------------------------------- addGetParameter
encodeURIComponent(s) ==
  CASE s = "a b" -> "a%20b" [] s = "x&y" -> "x%26y" [] OTHER -> s

\* path.indexOf("?") > -1
hasQuery(path) == \E i \in 1 .. Len(path) : SubSeq(path, i, i) = "?"

addGetParameter(path, key, value) ==
  LET delimiter == IF hasQuery(path) THEN "&" ELSE "?"
  IN  path \o delimiter \o encodeURIComponent(key) \o "="
           \o encodeURIComponent(value)

\* _.each(params, function(key, value){ ... }): underscore calls the
\* iterator with (element, key), so the parameter named key receives the
\* property's value and the parameter named value receives its key
RECURSIVE eachParam(_, _)
eachParam(path, props) ==
  IF props = <<>> THEN path
  ELSE LET key   == Head(props)[2]
           value == Head(props)[1]
       IN  eachParam(addGetParameter(path, key, value), Tail(props))

\* ---------------------------------------------------------------- getAlias
\* a map is a plain object: its own properties, in insertion order, as a
\* sequence of <<name, alias>> pairs with distinct names
ownKeys(map) == { map[i][1] : i \in DOMAIN map }

\* Object.keys(map)
ObjectKeys(map) == [i \in DOMAIN map |-> map[i][1]]

\* map[str]: own property, else the member inherited from Object.prototype
Get(map, str) ==
  IF str \in ownKeys(map)
  THEN LET i == CHOOSE j \in DOMAIN map : map[j][1] = str IN map[i][2]
  ELSE IF str \in ProtoKeys THEN ObjectCtor ELSE Undefined

\* map[str] = value
Put(map, str, value) ==
  IF str \in ownKeys(map)
  THEN [i \in DOMAIN map |-> IF map[i][1] = str THEN <<str, value>> ELSE map[i]]
  ELSE Append(map, <<str, value>>)

\* a lookup that never scans the values
findNever(map, str) == Undefined

\* _.find(map, function(v){ return v === str; })
find(map, str) ==
  IF \E i \in DOMAIN map : map[i][2] = str THEN str ELSE Undefined

getAlias(map, str) ==
  IF Truthy(Get(map, str)) THEN Get(map, str) ELSE find(map, str)

\* async.each(flos, ...) of flos(): fills the map and collects the names
RECURSIVE eachFlo(_, _, _)
eachFlo(flos, map, out) ==
  IF flos = <<>> THEN [map |-> map, out |-> out]
  ELSE LET flo == Head(flos)
       IN  eachFlo(Tail(flos),
                   Put(map, flo.name, flo.alias),
                   IF ~Truthy(Get(map, flo.name)) THEN Append(out, flo.name)
                   ELSE out)

toISOString(t) == "T" \o ToString(t)

\* ------------------------------------------------------------------- state
VARIABLES
  account,    \* self.account
  headers,    \* self.httpOptions.headers, the one object every request uses
  floMap,     \* self.floMap: <<>> while undefined, else <<map>>
  calls,      \* the flos/invoke calls in progress
  called,     \* what the last step was called with, if it was a call
  sent,       \* the request the last step handed to self.client.request
  answered,   \* the response the last step received from the transport
  delivered,  \* the (error, data) the last step gave to a caller's callback
  lastList    \* history: <<>>, or <<L>> for the list L of the last list
              \* response that flos() processed as a success

vars ==
  <<account, headers, floMap, calls, called, sent, answered, delivered, lastList>>

NoCall   == [by |-> 0, op |-> "none"]
NoReq    == [by |-> 0, method |-> "none"]
NoResult == [by |-> 0]
NoAnswer == [by |-> 0]
Pending  == [state |-> "none"]

\* a call: pc is where it stands; flo and data are the variables of the
\* invoke closure, kept while its promise handlers can still read them;
\* promise is the promise of self.flos(true)
IdleCall == [pc |-> "idle", flo |-> Undefined, data |-> NoValue,
             promise |-> Pending]

Init ==
  /\ account \in Accounts
  /\ headers = [h \in {"Content-Type"} |-> "application/json"]
  /\ floMap = <<>>
  /\ calls = [c \in Calls |-> IdleCall]
  /\ called = NoCall
  /\ sent = NoReq
  /\ answered = NoAnswer
  /\ delivered = NoResult
  /\ lastList = <<>>

\* ------------------------------------------------------------- makeRequest
\* !params || Object.keys(params).length < 1
noParams(params) ==
  \/ params.type = "undefined"
  \/ params.type = "string" /\ params.str = ""
  \/ params.type = "object" /\ params.props = <<>>

\* Buffer.byteLength of a string of the model's (ASCII) alphabet
byteLength(str) == Len(str)

\* a credentials check that forgets the secret
missingCredentialsKeyOnly == ~Truthy(account.accessKey)

\* !self.account || !self.account.accessKey || !self.account.accessSecret
missingCredentials ==
  ~Truthy(account.accessKey) \/ ~Truthy(account.accessSecret)

\* lines 125-147 of makeRequest, up to the call of self.client.request:
\* either the credentials error given to the callback at once, or the
\* request handed to the transport and the shared headers object after it;
\* now is what new Date() reads.  The field signed of the request records
\* the arguments of the signData call of line 134; it is not on the wire
makeRequest(options, params0, now) ==
  IF missingCredentials
  THEN [sent |-> FALSE, error |-> "Account information not found"]
  ELSE
    LET timestamp == toISOString(now)
        params == IF noParams(params0) THEN Str("") ELSE params0
        hash == signData(account.accessSecret, params, options.method,
                         options.path, timestamp)
        path == IF options.method = "GET" /\ params.type = "object"
                THEN eachParam(options.path, params.props)
                ELSE options.path
        body == IF options.method = "GET" THEN params
                ELSE Str(JSONstringify(params))
        set == {"x-api-timestamp", "x-api-hash", "x-api-accessKey"}
                 \cup (IF options.method = "POST" THEN {"Content-Length"} ELSE {})
        hdrs == [h \in DOMAIN headers \cup set |->
                   CASE h = "Content-Length" /\ options.method = "POST"
                          -> byteLength(body.str)
                     [] h = "x-api-timestamp" -> timestamp
                     [] h = "x-api-hash"      -> hash
                     [] h = "x-api-accessKey" -> account.accessKey
                     [] OTHER                 -> headers[h]]
    IN  [sent |-> TRUE,
         req |-> [method |-> options.method, path |-> path,
                  headers |-> hdrs, body |-> body,
                  signed |-> [accessSecret |-> account.accessSecret,
                              data |-> params, verb |-> options.method,
                              path |-> options.path,
                              timestamp |-> timestamp]],
         headers |-> hdrs]

\* ------------------------------------------------------------- the transport
TransportError == [kind |-> "error", error |-> "ECONNRESET"]
Text(t) == [kind |-> "body", json |-> FALSE, text |-> t]
Json(v) == [kind |-> "body", json |-> TRUE, val |-> v]

ErrorBody == Json(Obj(<< <<"error", "boom">> >>))

ListResponses ==
  {TransportError, Text(""), Text("<html>"), ErrorBody}
    \cup { Json(Arr(l)) : l \in FloLists }

InvokeResponses ==
  {TransportError, Text(""), Text("<html>"), ErrorBody,
   Json(Obj(<< <<"error", "">>, <<"data", "1">> >>)),
   Json(Obj(<< <<"data", "1">> >>))}

\* resp.body.error
errorOf(val) == IF val.type = "object" THEN Get(val.props, "error") ELSE Undefined

\* a response callback that does not look at the error field
requestCallbackNoErrorField(resp) ==
  IF resp.kind = "error" THEN [err |-> resp.error, data |-> NoValue]
  ELSE IF ~resp.json THEN [err |-> resp.text, data |-> NoValue]
  ELSE [err |-> Undefined, data |-> resp.val]

\* the callback makeRequest gives the transport (lines 147-161): the
\* (error, data) with which it calls its own callback
requestCallback(resp) ==
  IF resp.kind = "error" THEN [err |-> resp.error, data |-> NoValue]
  ELSE IF ~resp.json THEN [err |-> resp.text, data |-> NoValue]
  ELSE IF Truthy(errorOf(resp.val))
       THEN [err |-> errorOf(resp.val), data |-> NoValue]
       ELSE [err |-> Undefined, data |-> resp.val]

\* -------------------------------------------------------------------- flos
\* a cache test with the flag inverted, and one that ignores the flag
flosFromCacheInverted(refresh) == floMap # <<>> /\ refresh
flosFromCacheAnyFlag(refresh) == floMap # <<>>

\* flos(refresh), lines 221-224: answered from the cache, or a list request
flosFromCache(refresh) == floMap # <<>> /\ ~refresh

\* a callback that empties the cache before it looks at the error
flosCallbackResetFirst(cb, throws) ==
  IF Truthy(cb.err)
  THEN [outcome |-> "error", err |-> cb.err, floMap |-> << <<>> >>,
        lastList |-> lastList]
  ELSE IF cb.data.type = "array"
  THEN LET r == eachFlo(cb.data.items, <<>>, <<>>)
       IN  [outcome |-> "ok", out |-> r.out, floMap |-> <<r.map>>,
            lastList |-> <<cb.data.items>>]
  ELSE [outcome |-> IF throws THEN "throw" ELSE "ok", out |-> <<>>,
        floMap |-> << <<>> >>, lastList |-> lastList]

\* the callback flos gives makeRequest, lines 224-239.  async.each of an
\* undefined list (error "" of an empty response body is falsy) either
\* throws or completes at once, depending on the async release: throws
\* chooses between the two
flosCallback(cb, throws) ==
  IF Truthy(cb.err)
  THEN [outcome |-> "error", err |-> cb.err, floMap |-> floMap,
        lastList |-> lastList]
  ELSE IF cb.data.type = "array"
  THEN LET r == eachFlo(cb.data.items, <<>>, <<>>)
       IN  [outcome |-> "ok", out |-> r.out, floMap |-> <<r.map>>,
            lastList |-> <<cb.data.items>>]
  ELSE [outcome |-> IF throws THEN "throw" ELSE "ok", out |-> <<>>,
        floMap |-> << <<>> >>, lastList |-> lastList]

\* a promise that is resolved whatever the error
settleResolved(error, data) == [state |-> "resolved", value |-> data]

\* the callback wrapAsyncFunction adds when the caller passes none
\* (lines 61-66): it settles the promise
settle(error, data) ==
  IF Truthy(error) THEN [state |-> "rejected", error |-> error]
  ELSE [state |-> "resolved", value |-> data]

Names(out) == [type |-> "names", items |-> out]

\* ------------------------------------------------------------------ invoke
\* the call record once its callback has been called, or once it has thrown
finished == [IdleCall EXCEPT !.pc = "done"]
thrown   == [IdleCall EXCEPT !.pc = "thrown"]

\* callback(err, data) of call c, made at the given place of the source:
\* "credentials" (line 127), "request" (lines 149-159, called back by
\* makeRequest itself), "cache" (222), "flos" (226, 236), "notfound" (272),
\* "rejected" (273)
callback(c, site, err, data) ==
  [by |-> c, site |-> site, err |-> err, data |-> data]

\* self.client.request(options, params, ...) of call c
request(c, req) == [by |-> c] @@ req

\* the body of invoke, lines 259-274, run by call c with the record k for
\* the arguments (flo, data, force): the call record, the headers, the
\* request handed to the transport and the result given to the caller
\* after it
invokeBody(c, k, flo, data, force, now) ==
  LET found == getAlias(IF floMap = <<>> THEN <<>> ELSE floMap[1], flo)
      alias == IF ~Truthy(found) /\ force THEN flo ELSE found
      none  == [call |-> k, headers |-> headers, sent |-> NoReq,
                delivered |-> NoResult]
  IN
  IF Truthy(alias)
  THEN LET mr == makeRequest([path |-> replaceId(alias),
                              method |-> routes.invoke.method], data, now)
       IN  IF mr.sent
           THEN [none EXCEPT !.call = [k EXCEPT !.pc = "invoking",
                                         !.flo = Undefined, !.data = NoValue],
                             !.headers = mr.headers,
                             !.sent = request(c, mr.req)]
           ELSE [none EXCEPT !.call = finished,
                             !.delivered = callback(c, "credentials", mr.error,
                                                     NoValue)]
  ELSE \* self.flos(true).then(...)
       IF flosFromCache(TRUE)
       THEN [none EXCEPT !.call = [k EXCEPT !.pc = "settled", !.flo = flo,
                                     !.data = data,
                                     !.promise =
                                       settle(Undefined,
                                              Names(ObjectKeys(floMap[1])))]]
       ELSE LET mr == makeRequest(routes.flos, NoValue, now)
            IN  IF mr.sent
                THEN [none EXCEPT !.call = [k EXCEPT !.pc = "refreshing",
                                              !.flo = flo, !.data = data],
                                  !.headers = mr.headers,
                                  !.sent = request(c, mr.req)]
                ELSE [none EXCEPT !.call = [k EXCEPT !.pc = "settled",
                                              !.flo = Undefined,
                                              !.data = NoValue,
                                              !.promise = settle(mr.error, NoValue)]]

\* ----------------------------------------------------------------- actions
\* a caller invokes flo with data (and force)
Invoke(c, flo, data, force, now) ==
  /\ calls[c].pc = "idle"
  /\ LET r == invokeBody(c, calls[c], flo, data, force, now)
     IN  /\ calls' = [calls EXCEPT ![c] = r.call]
         /\ headers' = r.headers
         /\ sent' = r.sent
         /\ delivered' = r.delivered
  /\ called' = [by |-> c, op |-> "invoke", flo |-> flo, force |-> force]
  /\ answered' = NoAnswer
  /\ UNCHANGED <<account, floMap, lastList>>

\* a caller lists the flos
Flos(c, refresh, now) ==
  /\ calls[c].pc = "idle"
  /\ IF flosFromCache(refresh)
     THEN /\ calls' = [calls EXCEPT ![c] = finished]
          /\ delivered' = callback(c, "cache", Undefined,
                                   Names(ObjectKeys(floMap[1])))
          /\ sent' = NoReq
          /\ UNCHANGED headers
     ELSE LET mr == makeRequest(routes.flos, NoValue, now)
          IN  IF mr.sent
              THEN /\ calls' = [calls EXCEPT ![c] = [@ EXCEPT !.pc = "listing"]]
                   /\ headers' = mr.headers
                   /\ sent' = request(c, mr.req)
                   /\ delivered' = NoResult
              ELSE /\ calls' = [calls EXCEPT ![c] = finished]
                   /\ delivered' = callback(c, "credentials", mr.error, NoValue)
                   /\ sent' = NoReq
                   /\ UNCHANGED headers
  /\ called' = [by |-> c, op |-> "flos", refresh |-> refresh]
  /\ answered' = NoAnswer
  /\ UNCHANGED <<account, floMap, lastList>>

\* the transport answers the list request of a flos call
RespondList(c, resp, throws) ==
  /\ calls[c].pc \in {"listing", "refreshing"}
  /\ throws => resp = Text("")
  /\ LET f == flosCallback(requestCallback(resp), throws)
         k == calls[c]
     IN  /\ floMap' = f.floMap
         /\ lastList' = f.lastList
         /\ calls' = [calls EXCEPT ![c] =
              CASE f.outcome = "throw" -> thrown
                [] k.pc = "refreshing" ->
                     IF f.outcome = "error"
                     THEN [k EXCEPT !.pc = "settled", !.flo = Undefined,
                                    !.data = NoValue,
                                    !.promise = settle(f.err, NoValue)]
                     ELSE [k EXCEPT !.pc = "settled",
                                    !.promise = settle(Undefined, Names(f.out))]
                [] OTHER -> finished]
         /\ delivered' =
              IF f.outcome = "throw" \/ k.pc = "refreshing" THEN NoResult
              ELSE IF f.outcome = "error"
                   THEN callback(c, "flos", f.err, NoValue)
                   ELSE callback(c, "flos", Undefined, Names(f.out))
  /\ answered' = [by |-> c, resp |-> resp]
  /\ called' = NoCall
  /\ sent' = NoReq
  /\ UNCHANGED <<account, headers>>

\* the transport answers the invoke request of an invoke call
RespondInvoke(c, resp) ==
  /\ calls[c].pc = "invoking"
  /\ LET cb == requestCallback(resp)
     IN  /\ calls' = [calls EXCEPT ![c] = finished]
         /\ delivered' = callback(c, "request", cb.err, cb.data)
  /\ answered' = [by |-> c, resp |-> resp]
  /\ called' = NoCall
  /\ sent' = NoReq
  /\ UNCHANGED <<account, headers, floMap, lastList>>

\* the handlers invoke attached to the promise of self.flos(true) run
\* (lines 267-273)
Then(c, now) ==
  /\ calls[c].pc = "settled"
  /\ LET k == [calls[c] EXCEPT !.promise = Pending]
     IN  IF calls[c].promise.state = "rejected"
         THEN /\ calls' = [calls EXCEPT ![c] = finished]
              /\ delivered' = callback(c, "rejected", calls[c].promise.error,
                                       NoValue)
              /\ sent' = NoReq
              /\ UNCHANGED headers
         ELSE LET alias == getAlias(floMap[1], k.flo)
              IN  IF Truthy(alias)
                  THEN LET r == invokeBody(c, k, alias, k.data, FALSE, now)
                       IN  /\ calls' = [calls EXCEPT ![c] = r.call]
                           /\ headers' = r.headers
                           /\ sent' = r.sent
                           /\ delivered' = r.delivered
                  ELSE /\ calls' = [calls EXCEPT ![c] = finished]
                       /\ delivered' = callback(c, "notfound", "Flo not found",
                                                NoValue)
                       /\ sent' = NoReq
                       /\ UNCHANGED headers
  /\ called' = NoCall
  /\ answered' = NoAnswer
  /\ UNCHANGED <<account, floMap, lastList>>

\* loadConfig replaces the account; the caller does so between calls
\* (loadConfig blocks), not while a request is outstanding
loadConfig(a) ==
  /\ \A c \in Calls : calls[c].pc \in {"idle", "done", "thrown"}
  /\ a # account
  /\ account' = a
  /\ called' = NoCall
  /\ sent' = NoReq
  /\ answered' = NoAnswer
  /\ delivered' = NoResult
  /\ UNCHANGED <<headers, floMap, calls, lastList>>

Next ==
  \/ \E c \in Calls, flo \in InvokeArgs, data \in Payloads,
        force \in BOOLEAN, now \in Times : Invoke(c, flo, data, force, now)
  \/ \E c \in Calls, refresh \in BOOLEAN, now \in Times : Flos(c, refresh, now)
  \/ \E c \in Calls, resp \in ListResponses, throws \in BOOLEAN :
       RespondList(c, resp, throws)
  \/ \E c \in Calls, resp \in InvokeResponses : RespondInvoke(c, resp)
  \/ \E c \in Calls, now \in Times : Then(c, now)
  \/ \E a \in Accounts : loadConfig(a)

Spec == Init /\ [][Next]_vars

\* the transport answers every request it is given, and the handlers of a
\* settled promise run
FairSpec ==
  /\ Spec
  /\ \A c \in Calls :
       /\ WF_vars(\E resp \in ListResponses, throws \in BOOLEAN :
                    RespondList(c, resp, throws))
       /\ WF_vars(\E resp \in InvokeResponses : RespondInvoke(c, resp))
       /\ WF_vars(\E now \in Times : Then(c, now))

\* ------------------------------------------------------------ properties
\* self.floMap || {}
Map == IF floMap = <<>> THEN <<>> ELSE floMap[1]

CredentialsError == "Account information not found"

\* the access key or the access secret is absent or empty
CredentialsAbsent ==
  \/ account.accessKey \in {Undefined, ""}
  \/ account.accessSecret \in {Undefined, ""}

\* r is the list-workflows request of call c
IsListRequest(r, c) ==
  r.by = c /\ r.method = "GET" /\ r.path = "/account/flos"

\* the step is one of call c
Stepped(c) == calls'[c] # calls[c]

\* the step is invoke(flo, data, force) being called as call c
InvokeCalled(c) == called'.by = c /\ called'.op = "invoke"

\* the step is flos(refresh) being called as call c
FlosCalled(c) == called'.by = c /\ called'.op = "flos"

\* the mapping a list response stands for: every name of the list, with
\* the alias of its last entry
NamesOf(list) == { list[i].name : i \in DOMAIN list }
LastAlias(list, n) ==
  LET i == CHOOSE j \in DOMAIN list :
             list[j].name = n /\ \A k \in DOMAIN list : k > j => list[k].name # n
  IN  list[i].alias
IsMappingOf(map, list) ==
  /\ ownKeys(map) = NamesOf(list)
  /\ Len(map) = Cardinality(NamesOf(list))
  /\ \A i \in DOMAIN map : map[i][2] = LastAlias(list, map[i][1])

C2_ForceUsesNameVerbatim ==
  [][\A c \in Calls :
       (InvokeCalled(c) /\ called'.force /\ ~CredentialsAbsent)
       => /\ calls'[c].pc = "invoking"
          /\ sent'.by = c
          /\ sent'.method = "POST"
          /\ sent'.path = "/flo/" \o called'.flo \o "/invoke"
    ]_vars

\* C3: the cache is never-populated, or it is the mapping of the list
\* response that was processed last
C3_CacheFromOneResponse ==
  \/ floMap = <<>> /\ lastList = <<>>
  \/ floMap # <<>> /\ lastList # <<>> /\ IsMappingOf(floMap[1], lastList[1])

\* C4: while the access key or the access secret is absent or empty, no
\* step hands a request to the transport or changes the cache, and every
\* invoke, and every flos that is not answered from the cache, fails with
\* the missing-credentials error
C4_MissingCredentials ==
  [][CredentialsAbsent =>
       /\ sent' = NoReq
       /\ floMap' = floMap
       /\ \A c \in Calls :
            /\ InvokeCalled(c)
               => \/ /\ calls'[c].pc = "done"
                     /\ delivered' = callback(c, "credentials",
                                              CredentialsError, NoValue)
                  \/ /\ calls'[c].pc = "settled"
                     /\ calls'[c].promise =
                          [state |-> "rejected", error |-> CredentialsError]
                     /\ delivered' = NoResult
            /\ (FlosCalled(c) /\ (floMap = <<>> \/ called'.refresh))
               => /\ calls'[c].pc = "done"
                  /\ delivered' = callback(c, "credentials",
                                           CredentialsError, NoValue)
            /\ (calls[c].pc = "settled" /\ Stepped(c))
               => /\ calls'[c].pc = "done"
                  /\ delivered' = callback(c, "rejected",
                                           CredentialsError, NoValue)
    ]_vars

\* C4 witness: with a populated cache and credentials gone missing, a call
\* has failed with the missing-credentials error
C4_Witness ==
  /\ CredentialsAbsent
  /\ floMap # <<>> /\ floMap[1] # <<>>
  /\ delivered.by # 0
  /\ delivered.err = CredentialsError

\* C5: flos with a falsy flag on a populated cache gives the caller the
\* keys of the cache, each once, hands nothing to the transport and leaves
\* the cache as it is
C5_CachedList ==
  [][\A c \in Calls :
       (FlosCalled(c) /\ ~called'.refresh /\ floMap # <<>>)
       => /\ calls'[c].pc = "done"
          /\ delivered'.by = c
          /\ delivered'.err = Undefined
          /\ delivered'.data.type = "names"
          /\ { delivered'.data.items[i] : i \in DOMAIN delivered'.data.items }
               = ownKeys(floMap[1])
          /\ Len(delivered'.data.items) = Cardinality(ownKeys(floMap[1]))
          /\ sent' = NoReq
          /\ floMap' = floMap
    ]_vars

\* C5 witness: flos(false) was answered with the names of a non-empty cache
C5_Witness ==
  /\ called.op = "flos" /\ ~called.refresh
  /\ floMap # <<>> /\ floMap[1] # <<>>
  /\ delivered.by = called.by
  /\ delivered.site = "cache"

\* C6: flos with a truthy flag is never answered from the cache: it goes
\* to the list request (handed to the transport whenever the credentials
\* are there), also when the cache is populated; and a list response makes
\* the cache the mapping of that response, nothing of the old one kept
C6_ForcedListGoesRemote ==
  [][\A c \in Calls :
       /\ (FlosCalled(c) /\ called'.refresh)
          => /\ floMap' = floMap
             /\ IF CredentialsAbsent
                THEN delivered' = callback(c, "credentials",
                                           CredentialsError, NoValue)
                ELSE /\ IsListRequest(sent', c)
                     /\ calls'[c].pc = "listing"
                     /\ delivered' = NoResult
       /\ (calls[c].pc = "listing" /\ answered'.by = c
             /\ answered'.resp.kind = "body" /\ answered'.resp.json
             /\ answered'.resp.val.type = "array")
          => /\ floMap' # <<>>
             /\ IsMappingOf(floMap'[1], answered'.resp.val.items)
             /\ delivered'.by = c
             /\ delivered'.err = Undefined
    ]_vars

\* C6 witness: flos(true) handed a list request to the transport although
\* the cache was populated
C6_Witness ==
  /\ called.op = "flos" /\ called.refresh
  /\ floMap # <<>> /\ floMap[1] # <<>>
  /\ IsListRequest(sent, called.by)

\* a refresh failure of the kinds C7 names
RefreshFailures == {TransportError, ErrorBody}
FailureOf(resp) == IF resp = TransportError THEN "ECONNRESET" ELSE "boom"

\* C7: when the refresh of a cache-miss invoke fails, the promise of
\* flos(true) is rejected with that error, and its handlers give that
\* error to the caller of invoke; neither step hands a request to the
\* transport
C7_RefreshFailureAborts ==
  [][\A c \in Calls :
       /\ (calls[c].pc = "refreshing" /\ answered'.by = c
             /\ answered'.resp \in RefreshFailures)
          => /\ calls'[c].pc = "settled"
             /\ calls'[c].promise = [state |-> "rejected",
                                     error |-> FailureOf(answered'.resp)]
             /\ sent' = NoReq
             /\ delivered' = NoResult
       /\ (InvokeCalled(c) /\ calls'[c].pc \in {"refreshing", "settled"}
             /\ CredentialsAbsent)
          => /\ calls'[c].promise = [state |-> "rejected",
                                     error |-> CredentialsError]
             /\ sent' = NoReq
       /\ (calls[c].pc = "settled" /\ calls[c].promise.state = "rejected"
             /\ Stepped(c))
          => /\ calls'[c].pc = "done"
             /\ delivered' = callback(c, "rejected", calls[c].promise.error,
                                      NoValue)
             /\ sent' = NoReq
    ]_vars

\* C7 witness: the error of a failed refresh reached the caller of invoke
C7_Witness ==
  /\ delivered.by # 0
  /\ delivered.site = "rejected"
  /\ delivered.err \in {"ECONNRESET", "boom"}

\* C8: the x-api-hash of every invoke request is the signature over the
\* lowercased verb, the path sent, the x-api-timestamp sent and the body
\* string sent
C8_HashCoversWire ==
  sent.method = "POST"
  => sent.headers["x-api-hash"]
       = Hmac(account.accessSecret,
              toLowerCase(sent.method) \o ":" \o sent.path \o ":"
                \o sent.headers["x-api-timestamp"] \o sent.body.str)

\* the response is parsed JSON with an error field
HasErrorField(resp) ==
  /\ resp.kind = "body" /\ resp.json
  /\ resp.val.type = "object"
  /\ \E i \in DOMAIN resp.val.props : resp.val.props[i][1] = "error"
ErrorField(resp) ==
  resp.val.props[CHOOSE i \in DOMAIN resp.val.props :
                   resp.val.props[i][1] = "error"][2]

\* the step ends the request of call c in failure with message msg: the
\* caller's callback, or the promise of flos(true), receives it
FailsWith(c, msg) ==
  \/ /\ calls'[c].pc = "done"
     /\ delivered'.by = c /\ delivered'.err = msg /\ delivered'.data = NoValue
  \/ /\ calls'[c].pc = "settled"
     /\ calls'[c].promise = [state |-> "rejected", error |-> msg]

\* C9 as stated: a response whose JSON body has an error field ends the
\* call in failure with that message and leaves the cache alone
C9_ErrorFieldFails ==
  [][\A c \in Calls :
       (answered'.by = c /\ HasErrorField(answered'.resp))
       => FailsWith(c, ErrorField(answered'.resp)) /\ floMap' = floMap
    ]_vars

\* C9 amended: a response whose JSON body has a truthy (non-empty) error
\* field ends the call in failure with that message and leaves the cache
\* alone
C9_TruthyErrorFieldFails ==
  [][\A c \in Calls :
       (answered'.by = c /\ HasErrorField(answered'.resp)
          /\ ErrorField(answered'.resp) \notin {Undefined, ""})
       => FailsWith(c, ErrorField(answered'.resp)) /\ floMap' = floMap
    ]_vars

\* C9 witness: a list call was answered with an error field; it failed
\* with the message and the populated cache is still there
C9_Witness ==
  /\ answered.by # 0
  /\ answered.resp = ErrorBody
  /\ delivered.by = answered.by
  /\ delivered.site = "flos"
  /\ delivered.err = "boom"
  /\ floMap # <<>> /\ floMap[1] # <<>>

\* the strings looked up
LookupArgs == InvokeArgs \cup {"billing", "missing"}

\* C10: lookup(s) is the alias stored under s when s is a name of the
\* cache, else s when s is a stored alias, else absent
C10_Lookup ==
  \A s \in LookupArgs :
    getAlias(Map, s) =
      IF \E i \in DOMAIN Map : Map[i][1] = s
      THEN Map[CHOOSE i \in DOMAIN Map : Map[i][1] = s][2]
      ELSE IF \E i \in DOMAIN Map : Map[i][2] = s THEN s
      ELSE Undefined

\* the inputs the signer is tried with
SignVerbs   == {"GET", "POST", "post"}
SignPaths   == {"/account/flos", "/flo/az1/invoke", "/flo/billing/invoke"}
SignStamps  == { toISOString(t) : t \in Times } \cup {"T9"}
SignBodies  == Payloads \cup {Str(""), Str("{\"amt\":5}"), Str("x")}
SignSecrets == {"s", "t"}

\* signData applied to a record of its five arguments
Sign(i) == signData(i.accessSecret, i.data, i.verb, i.path, i.timestamp)

\* the string a body is signed as: "" when absent, its JSON text when an
\* object, itself when a string
Serialized(d) ==
  CASE d.type = "undefined" -> ""
    [] d.type = "object"    -> JSONstringify(d)
    [] OTHER                -> d.str

\* C11 as stated: the hash of a request is the signer's output for the
\* arguments it was called with, and the output is another one as soon as
\* one of verb, path, timestamp, body or secret is another value
C11_SignerSensitive ==
  sent # NoReq =>
    LET i == sent.signed
        h == sent.headers["x-api-hash"]
    IN  /\ h = Sign(i)
        /\ \A v \in SignVerbs \ {i.verb} : Sign([i EXCEPT !.verb = v]) # h
        /\ \A p \in SignPaths \ {i.path} : Sign([i EXCEPT !.path = p]) # h
        /\ \A t \in SignStamps \ {i.timestamp} :
             Sign([i EXCEPT !.timestamp = t]) # h
        /\ \A d \in SignBodies \ {i.data} : Sign([i EXCEPT !.data = d]) # h
        /\ \A k \in SignSecrets \ {i.accessSecret} :
             Sign([i EXCEPT !.accessSecret = k]) # h

\* C11 amended: the hash of a request is the signer's output for the
\* arguments it was called with, and the output is another one as soon as
\* one of the lowercased verb, the path, the timestamp, the serialized body
\* or the secret is another value
C11_SignerSensitiveToCanonical ==
  sent # NoReq =>
    LET i == sent.signed
        h == sent.headers["x-api-hash"]
    IN  /\ h = Sign(i)
        /\ \A v \in SignVerbs :
             toLowerCase(v) # toLowerCase(i.verb)
             => Sign([i EXCEPT !.verb = v]) # h
        /\ \A p \in SignPaths \ {i.path} : Sign([i EXCEPT !.path = p]) # h
        /\ \A t \in SignStamps \ {i.timestamp} :
             Sign([i EXCEPT !.timestamp = t]) # h
        /\ \A d \in SignBodies :
             Serialized(d) # Serialized(i.data)
             => Sign([i EXCEPT !.data = d]) # h
        /\ \A k \in SignSecrets \ {i.accessSecret} :
             Sign([i EXCEPT !.accessSecret = k]) # h

\* C11 witness: an invoke request with a payload was signed, and the
\* signature of the same arguments at another time is another one
C11_Witness ==
  /\ sent.method = "POST"
  /\ sent.signed.data.type = "object"
  /\ sent.headers["x-api-hash"] = Sign(sent.signed)
  /\ Sign([sent.signed EXCEPT !.timestamp = "T9"]) # sent.headers["x-api-hash"]

\* the elements of a sequence
Range(seq) == { seq[i] : i \in DOMAIN seq }

\* C12: a refresh that succeeds gives the caller of flos the names of the
\* list response, each distinct name once, and they are the keys of the
\* cache after the refresh, which is what flos(false) then returns
C12_RefreshReturnsNameSet ==
  [][\A c \in Calls :
       (calls[c].pc = "listing" /\ answered'.by = c
          /\ delivered'.by = c /\ delivered'.err = Undefined)
       => LET out == delivered'.data.items
          IN  /\ delivered'.data.type = "names"
              /\ Len(out) = Cardinality(Range(out))
              /\ floMap' # <<>>
              /\ Range(out) = ownKeys(floMap'[1])
              /\ Range(out) = Range(ObjectKeys(floMap'[1]))
              /\ (answered'.resp.kind = "body" /\ answered'.resp.json
                    /\ answered'.resp.val.type = "array")
                 => Range(out) = NamesOf(answered'.resp.val.items)
    ]_vars

\* C13: when the handlers of a refresh that succeeded dispatch, the invoke
\* request goes to the path a warm invoke of the same name sends with the
\* cache as it is: /flo/<lookup(name)>/invoke
C13_ColdDispatchAsWarm ==
  [][\A c \in Calls :
       (calls[c].pc = "settled" /\ calls[c].promise.state = "resolved"
          /\ sent'.by = c)
       => /\ sent'.method = "POST"
          /\ sent'.path = replaceId(getAlias(Map, calls[c].flo))
    ]_vars

\* C14: an invoke whose own refresh was answered with a list that has its
\* name (the promise of flos(true) is resolved with the names of that
\* list) goes on to dispatch when its handlers run, whatever has become
\* of the cache since
C14_OwnRefreshResolves ==
  [][\A c \in Calls :
       (calls[c].pc = "settled" /\ calls[c].promise.state = "resolved"
          /\ calls[c].flo \in Range(calls[c].promise.value.items)
          /\ Stepped(c))
       => /\ calls'[c].pc = "invoking"
          /\ sent'.by = c /\ sent'.method = "POST"
          /\ delivered' = NoResult
    ]_vars

\* C15: a list (GET) request carries Content-Type, x-api-timestamp,
\* x-api-hash and x-api-accessKey and no other header, in particular no
\* Content-Length, whatever requests were made before it
C15_GetHeaders ==
  sent.method = "GET"
  => DOMAIN sent.headers
       = {"Content-Type", "x-api-timestamp", "x-api-hash", "x-api-accessKey"}

\* C16: a refresh that fails, by a transport error, by an error field in
\* the response or by missing credentials, leaves the cache as it was,
\* populated or never populated, and gives the error to the caller (or to
\* the promise of flos(true)); and flos(false) on a never-populated cache
\* goes to the list request
C16_FailedRefreshKeepsCache ==
  [][\A c \in Calls :
       /\ (calls[c].pc \in {"listing", "refreshing"} /\ answered'.by = c
             /\ answered'.resp \in RefreshFailures)
          => /\ floMap' = floMap
             /\ FailsWith(c, FailureOf(answered'.resp))
       /\ (called'.by = c /\ CredentialsAbsent) => floMap' = floMap
       /\ (FlosCalled(c) /\ ~called'.refresh /\ floMap = <<>>
             /\ ~CredentialsAbsent)
          => IsListRequest(sent', c) /\ calls'[c].pc = "listing"
    ]_vars

\* C16 witness: a refresh of a populated cache failed and the mapping is
\* still there
C16_Witness ==
  /\ answered.by # 0
  /\ answered.resp \in RefreshFailures
  /\ delivered.by = answered.by /\ delivered.site = "flos"
  /\ floMap # <<>> /\ floMap[1] # <<>>
  /\ lastList # <<>> /\ IsMappingOf(floMap[1], lastList[1])

\* C17: a response that the transport reports as a success and whose body
\* is not JSON, the empty body included, ends the call in failure: the
\* caller's callback gets a truthy error, or the promise of flos(true) is
\* rejected; and the cache stays as it was
C17_UnparseableBodyFails ==
  [][\A c \in Calls :
       (answered'.by = c /\ answered'.resp.kind = "body"
          /\ ~answered'.resp.json)
       => /\ \/ /\ calls'[c].pc = "done"
                /\ delivered'.by = c
                /\ delivered'.err \notin {Undefined, ""}
             \/ /\ calls'[c].pc = "settled"
                /\ calls'[c].promise.state = "rejected"
          /\ floMap' = floMap
    ]_vars

\* C18: every call that was made completes, and its callback is called
\* once: only by a step that completes the call, which was not complete
\* before
C18_EveryCallCompletes ==
  /\ \A c \in Calls : (calls[c].pc # "idle") ~> (calls[c].pc = "done")
  /\ [][\A c \in Calls :
          delivered'.by = c => (calls[c].pc # "done" /\ calls'[c].pc = "done")
       ]_vars

\* the parameters a GET request is built with
GetParams == { Obj(<< <<"q", "a b">> >>),
               Obj(<< <<"q", "1">>, <<"x&y", "2">> >>) }

\* the path with every parameter appended as encode(key)=encode(value)
RECURSIVE QueryPath(_, _)
QueryPath(path, props) ==
  IF props = <<>> THEN path
  ELSE QueryPath(path \o (IF hasQuery(path) THEN "&" ELSE "?")
                      \o encodeURIComponent(Head(props)[1]) \o "="
                      \o encodeURIComponent(Head(props)[2]),
                 Tail(props))

\* C19: makeRequest for a GET route with parameters hands the transport
\* the path with every parameter appended as encode(key)=encode(value)
\* and the empty string as the body, and signs the path as it was before
\* the parameters were appended
C19_GetQueryParameters ==
  ~CredentialsAbsent =>
    \A params \in GetParams, now \in Times :
      LET mr == makeRequest(routes.flos, params, now)
      IN  /\ mr.sent
          /\ mr.req.method = "GET"
          /\ mr.req.path = QueryPath(routes.flos.path, params.props)
          /\ mr.req.body = Str("")
          /\ mr.req.headers["x-api-hash"]
               = signData(account.accessSecret, params, "GET",
                          routes.flos.path, toISOString(now))
====
